---- MODULE Spec2Model ----
(***************************************************************************)
(* Model of src/eCommerce.cpp: a catalog of products (ShippableProduct,    *)
(* ExpirableProduct, DigitalProduct), carts of (product, quantity) items,  *)
(* one customer with a prepaid balance, and CheckoutService::checkout,     *)
(* which validates, prices, decrements stock, debits and prints.           *)
(*                                                                         *)
(* Money and weights are C++ doubles; the catalog below uses integral      *)
(* values, on which double arithmetic is exact, so they are modelled as    *)
(* integers.  Quantities and stock are C++ ints: they keep a width         *)
(* (IntBits, scaled down from 32 so that INT_MIN can be enumerated) and    *)
(* signed overflow, which is undefined behaviour, is a choice between the  *)
(* two outcomes builds produce: two's-complement wrap-around, or a trap    *)
(* that aborts the process (-ftrapv).                                      *)
(***************************************************************************)
EXTENDS Integers, Sequences, FiniteSets

\* ------------------------------------------------------------------ bounds
IntBits == 5          \* width of int in the model
MaxQty == 2           \* largest positive quantity offered to addToCart
MaxItems == 2         \* longest cart
MaxTime == 1          \* the wall clock runs 0..MaxTime
MaxCheckouts == 2     \* checkout calls per behaviour

IntMax == 2^(IntBits - 1) - 1
IntMin == -IntMax - 1

\* ----------------------------------------------------------------- catalog
Products == {"Cheese", "Milk", "Card"}
CartIds == {1, 2}

\* the dynamic type of each product object
Kind(p) ==
  CASE p = "Cheese" -> "ShippableProduct"
    [] p = "Milk"   -> "ExpirableProduct"
    [] p = "Card"   -> "DigitalProduct"

getPrice(p) ==
  CASE p = "Cheese" -> 3
    [] p = "Milk"   -> 2
    [] p = "Card"   -> 1

\* ShippableProduct::weight, in kg; only ShippableProduct has the member
getWeight(p) ==
  CASE p = "Cheese" -> 1

\* ExpirableProduct::expiryDate; only ExpirableProduct has the member
expiryDate(p) ==
  CASE p = "Milk" -> 0

InitStock(p) ==
  CASE p = "Cheese" -> 2
    [] p = "Milk"   -> 2
    [] p = "Card"   -> 1

InitBalances == {2, 40}

ShippingRate == 10

Quantities == {IntMin, -1, 0} \cup (1..MaxQty)

VARIABLES
  stock,        \* Product::quantity of every product
  balance,      \* Customer::balance
  cart,         \* Cart::items of every cart
  now,          \* time(nullptr)
  pc,           \* position of the running checkout call
  cur,          \* the cart the running checkout was called with
  idx,          \* position of the loop the checkout is in
  subtotal, shippingFee, total,   \* the locals of checkout
  out,          \* lines written to cout by the running checkout
  err,          \* the exception the last checkout ended with
  stock0, balance0,  \* stock and balance when the running checkout was called
  addResult,    \* outcome of the last addToCart call
  addCall,      \* arguments of the last addToCart call, and the carts before it
  nCheckouts    \* checkout calls so far

vars == <<stock, balance, cart, now, pc, cur, idx, subtotal, shippingFee,
          total, out, err, stock0, balance0, addResult, addCall, nCheckouts>>

\* --------------------------------------------------------- pure functions
isExpired(p, t) ==
  IF Kind(p) = "ExpirableProduct" THEN t > expiryDate(p) ELSE FALSE

isShippable(p) ==
  CASE Kind(p) = "ExpirableProduct" -> TRUE
    [] Kind(p) = "ShippableProduct" -> TRUE
    [] Kind(p) = "DigitalProduct"   -> FALSE

\* dynamic_pointer_cast<Shippable>(product) is non-null: only
\* ShippableProduct derives from Shippable
CastsToShippable(p) == Kind(p) = "ShippableProduct"

getTotalPrice(item) == getPrice(item.product) * item.quantity

RECURSIVE calculateSubtotal(_)
calculateSubtotal(items) ==
  IF items = <<>> THEN 0
  ELSE getTotalPrice(Head(items)) + calculateSubtotal(Tail(items))

RECURSIVE calculateShippingFee(_)
calculateShippingFee(items) ==
  IF items = <<>> THEN 0
  ELSE (IF CastsToShippable(Head(items).product)
        THEN getWeight(Head(items).product) * Head(items).quantity * ShippingRate
        ELSE 0)
       + calculateShippingFee(Tail(items))

RECURSIVE getShippableItems(_)
getShippableItems(items) ==
  IF items = <<>> THEN <<>>
  ELSE (IF CastsToShippable(Head(items).product)
        THEN <<[product |-> Head(items).product, quantity |-> Head(items).quantity]>>
        ELSE <<>>)
       \o getShippableItems(Tail(items))

NoError == [kind |-> "None", name |-> ""]
Error(k, n) == [kind |-> k, name |-> n]
NoCall == [cart |-> 0, product |-> "", quantity |-> 0, before |-> <<>>]

\* -------------------------------------------------------------------- Init
Init ==
  /\ stock = [p \in Products |-> InitStock(p)]
  /\ balance \in InitBalances
  /\ cart = [c \in CartIds |-> <<>>]
  /\ now = 0
  /\ pc = "Idle"
  /\ cur = 0
  /\ idx = 0
  /\ subtotal = 0 /\ shippingFee = 0 /\ total = 0
  /\ out = <<>>
  /\ err = NoError
  /\ stock0 = stock
  /\ balance0 = balance
  /\ addResult = "None"
  /\ addCall = NoCall
  /\ nCheckouts = 0

\* no checkout call is running: the caller may call add or checkout
Returned == pc \in {"Idle", "Done", "Rejected", "Failed"}

\* the wall clock advances
Tick ==
  /\ now < MaxTime
  /\ now' = now + 1
  /\ UNCHANGED <<stock, balance, cart, pc, cur, idx, subtotal, shippingFee,
                 total, out, err, stock0, balance0, addResult, addCall,
                 nCheckouts>>

\* Cart::addToCart throws "Insufficient stock."
AddRejects_le(p, quantity) == stock[p] <= quantity
AddRejects(p, quantity) == stock[p] < quantity

\* Cart::addToCart(product, quantity) on cart c
addToCart(c, p, quantity) ==
  /\ Returned
  /\ Len(cart[c]) < MaxItems
  /\ addCall' = [cart |-> c, product |-> p, quantity |-> quantity,
                 before |-> cart]
  /\ IF AddRejects(p, quantity)
     THEN /\ addResult' = "InsufficientStock"
          /\ cart' = cart
     ELSE /\ addResult' = "Ok"
          /\ cart' = [cart EXCEPT ![c] =
                        Append(@, [product |-> p, quantity |-> quantity])]
  /\ pc' = "Idle" /\ cur' = 0 /\ idx' = 0
  /\ subtotal' = 0 /\ shippingFee' = 0 /\ total' = 0
  /\ out' = <<>> /\ err' = NoError
  /\ stock0' = stock /\ balance0' = balance
  /\ UNCHANGED <<stock, balance, now, nCheckouts>>

\* -------------------------------------------------------------- the output
Line(k, q, n, a) == [kind |-> k, qty |-> q, name |-> n, amount |-> a]

\* cout << lines
cout_front(o, lines) == lines \o o
cout(o, lines) == o \o lines

RECURSIVE shipLines(_)
shipLines(items) ==
  IF items = <<>> THEN <<>>
  ELSE <<Line("ShipLine", Head(items).quantity, Head(items).product,
              getWeight(Head(items).product) * Head(items).quantity * 1000)>>
       \o shipLines(Tail(items))

RECURSIVE totalWeight(_)
totalWeight(items) ==
  IF items = <<>> THEN 0
  ELSE getWeight(Head(items).product) * Head(items).quantity
       + totalWeight(Tail(items))

\* ShippingService::ship(items)
ship(items) ==
  <<Line("ShipHeader", 0, "", 0)>> \o shipLines(items)
  \o <<Line("ShipTotal", 0, "", totalWeight(items))>>

receiptLines_rev(items) ==
  [i \in 1..Len(items) |->
     Line("ReceiptLine", items[Len(items) + 1 - i].quantity,
          items[Len(items) + 1 - i].product,
          getTotalPrice(items[Len(items) + 1 - i]))]

RECURSIVE receiptLines(_)
receiptLines(items) ==
  IF items = <<>> THEN <<>>
  ELSE <<Line("ReceiptLine", Head(items).quantity, Head(items).product,
              getTotalPrice(Head(items)))>>
       \o receiptLines(Tail(items))

receipt_sub(items, sub, fee, tot) ==
  <<Line("ReceiptHeader", 0, "", 0)>> \o receiptLines(items)
  \o <<Line("Rule", 0, "", 0), Line("Subtotal", 0, "", sub),
       Line("Shipping", 0, "", fee), Line("Amount", 0, "", sub)>>

receipt(items, sub, fee, tot) ==
  <<Line("ReceiptHeader", 0, "", 0)>> \o receiptLines(items)
  \o <<Line("Rule", 0, "", 0), Line("Subtotal", 0, "", sub),
       Line("Shipping", 0, "", fee), Line("Amount", 0, "", tot)>>

\* ---------------------------------------------- CheckoutService::checkout
\* the call, and the empty check
CheckoutBegin(c) ==
  /\ Returned
  /\ nCheckouts < MaxCheckouts
  /\ nCheckouts' = nCheckouts + 1
  /\ cur' = c
  /\ stock0' = stock /\ balance0' = balance
  /\ out' = <<>>
  /\ subtotal' = 0 /\ shippingFee' = 0 /\ total' = 0
  /\ addResult' = "None" /\ addCall' = NoCall
  /\ IF cart[c] = <<>>
     THEN pc' = "Rejected" /\ err' = Error("EmptyCart", "") /\ idx' = 0
     ELSE pc' = "Validating" /\ err' = NoError /\ idx' = 1
  /\ UNCHANGED <<stock, balance, cart, now>>

\* the stock re-check of the validation loop
StockShort_never(item) == FALSE
StockShort(item) == stock[item.product] < item.quantity

ValidateItem_stockFirst ==
  /\ pc = "Validating"
  /\ idx <= Len(cart[cur])
  /\ LET item == cart[cur][idx] IN
       IF StockShort(item)
       THEN pc' = "Rejected" /\ err' = Error("OutOfStock", item.product)
            /\ idx' = 0
       ELSE IF isExpired(item.product, now)
       THEN pc' = "Rejected" /\ err' = Error("Expired", item.product)
            /\ idx' = 0
       ELSE pc' = pc /\ err' = err /\ idx' = idx + 1
  /\ UNCHANGED <<stock, balance, cart, now, cur, subtotal, shippingFee, total,
                 out, stock0, balance0, addResult, addCall, nCheckouts>>

\* one iteration of the validation loop
ValidateItem ==
  /\ pc = "Validating"
  /\ idx <= Len(cart[cur])
  /\ LET item == cart[cur][idx] IN
       IF isExpired(item.product, now)
       THEN pc' = "Rejected" /\ err' = Error("Expired", item.product)
            /\ idx' = 0
       ELSE IF StockShort(item)
       THEN pc' = "Rejected" /\ err' = Error("OutOfStock", item.product)
            /\ idx' = 0
       ELSE pc' = pc /\ err' = err /\ idx' = idx + 1
  /\ UNCHANGED <<stock, balance, cart, now, cur, subtotal, shippingFee, total,
                 out, stock0, balance0, addResult, addCall, nCheckouts>>

\* the price computation after the validation loop
Price ==
  /\ pc = "Validating"
  /\ idx > Len(cart[cur])
  /\ subtotal' = calculateSubtotal(cart[cur])
  /\ shippingFee' = calculateShippingFee(cart[cur])
  /\ total' = subtotal' + shippingFee'
  /\ pc' = "Priced"
  /\ idx' = 0
  /\ UNCHANGED <<stock, balance, cart, now, cur, out, err, stock0, balance0,
                 addResult, addCall, nCheckouts>>

\* checkout's own balance check
CannotAfford(amount) == balance < amount

Afford ==
  /\ pc = "Priced"
  /\ IF CannotAfford(total)
     THEN pc' = "Rejected" /\ err' = Error("InsufficientBalance", "")
          /\ idx' = 0
     ELSE pc' = "Committing" /\ err' = err /\ idx' = 1
  /\ UNCHANGED <<stock, balance, cart, now, cur, subtotal, shippingFee, total,
                 out, stock0, balance0, addResult, addCall, nCheckouts>>

\* Product::reduceQuantity throws "Not enough stock."
ReduceThrows(p, amount) == amount > stock[p]

\* quantity -= amount leaves the range of int
Overflows(p, amount) == stock[p] - amount > IntMax

WrapInt(n) == ((n - IntMin) % 2^IntBits) + IntMin

\* one iteration of the commit loop: item.product->reduceQuantity(quantity)
ReduceItem ==
  /\ pc = "Committing"
  /\ idx <= Len(cart[cur])
  /\ LET item == cart[cur][idx]
         p == item.product
         amount == item.quantity
     IN
       IF ReduceThrows(p, amount)
       THEN /\ pc' = "Failed" /\ err' = Error("NotEnoughStock", "")
            /\ idx' = 0 /\ stock' = stock
       ELSE IF Overflows(p, amount)
       THEN \/ /\ stock' = [stock EXCEPT ![p] = WrapInt(@ - amount)]
               /\ pc' = pc /\ err' = err /\ idx' = idx + 1
            \/ /\ pc' = "Aborted" /\ err' = err /\ idx' = 0
               /\ stock' = stock
       ELSE /\ stock' = [stock EXCEPT ![p] = @ - amount]
            /\ pc' = pc /\ err' = err /\ idx' = idx + 1
  /\ UNCHANGED <<balance, cart, now, cur, subtotal, shippingFee, total, out,
                 stock0, balance0, addResult, addCall, nCheckouts>>

\* Customer::deductBalance throws "Insufficient balance."
DebitThrows(amount) == balance < amount

deductBalance_sub(amount) == balance - subtotal
deductBalance_twice(amount) == balance - 2 * amount
deductBalance(amount) == balance - amount

\* customer.deductBalance(total) after the commit loop
Debit ==
  /\ pc = "Committing"
  /\ idx > Len(cart[cur])
  /\ IF DebitThrows(total)
     THEN pc' = "Failed" /\ err' = Error("InsufficientBalance", "")
          /\ balance' = balance
     ELSE pc' = "Shipping" /\ err' = err /\ balance' = deductBalance(total)
  /\ idx' = 0
  /\ UNCHANGED <<stock, cart, now, cur, subtotal, shippingFee, total, out,
                 stock0, balance0, addResult, addCall, nCheckouts>>

\* if (!shippableItems.empty())
ShouldShip_always(items) == TRUE
ShouldShip(items) == items # <<>>

\* the shipment notice, when the manifest is not empty
Ship ==
  /\ pc = "Shipping"
  /\ LET shippableItems == getShippableItems(cart[cur]) IN
       out' = IF ShouldShip(shippableItems)
              THEN cout(out, ship(shippableItems))
              ELSE out
  /\ pc' = "Reporting"
  /\ UNCHANGED <<stock, balance, cart, now, cur, idx, subtotal, shippingFee,
                 total, err, stock0, balance0, addResult, addCall, nCheckouts>>

Receipt_clear ==
  /\ pc = "Reporting"
  /\ out' = cout(out, receipt(cart[cur], subtotal, shippingFee, total))
  /\ pc' = "Done"
  /\ cart' = [cart EXCEPT ![cur] = <<>>]
  /\ UNCHANGED <<stock, balance, now, cur, idx, subtotal, shippingFee,
                 total, err, stock0, balance0, addResult, addCall, nCheckouts>>

\* the receipt
Receipt ==
  /\ pc = "Reporting"
  /\ out' = cout(out, receipt(cart[cur], subtotal, shippingFee, total))
  /\ pc' = "Done"
  /\ UNCHANGED <<stock, balance, cart, now, cur, idx, subtotal, shippingFee,
                 total, err, stock0, balance0, addResult, addCall, nCheckouts>>

\* ------------------------------------------------------------------- Next
\* the carts the caller fills and checks out
MainCarts == {1}

Next ==
  \/ Tick
  \/ \E c \in MainCarts, p \in Products, q \in Quantities : addToCart(c, p, q)
  \/ \E c \in MainCarts : CheckoutBegin(c)
  \/ ValidateItem
  \/ Price
  \/ Afford
  \/ ReduceItem
  \/ Debit
  \/ Ship
  \/ Receipt

Spec == Init /\ [][Next]_vars

\* a caller with two carts on the same products: it fills both in any order,
\* then checks out the first cart once and after that the second
SharedQuantities == 1..MaxQty

SharedAdd(c, p, quantity) ==
  /\ nCheckouts = 0
  /\ addToCart(c, p, quantity)

SharedCheckout(c) ==
  /\ IF nCheckouts = 0 THEN c = 1 ELSE c = 2
  /\ CheckoutBegin(c)

NextShared ==
  \/ Tick
  \/ \E c \in CartIds, p \in Products, q \in SharedQuantities :
       SharedAdd(c, p, q)
  \/ \E c \in CartIds : SharedCheckout(c)
  \/ ValidateItem
  \/ Price
  \/ Afford
  \/ ReduceItem
  \/ Debit
  \/ Ship
  \/ Receipt

SpecShared == Init /\ [][NextShared]_vars

TypeOK ==
  /\ pc \in {"Idle", "Validating", "Priced", "Committing", "Shipping",
             "Reporting", "Done", "Rejected", "Failed", "Aborted"}
  /\ \A p \in Products : stock[p] \in IntMin..IntMax
  /\ \A c \in CartIds : Len(cart[c]) <= MaxItems

\* ================================================================= claims
\* sum of the quantities of the entries of items for product p
RECURSIVE QtyFor(_, _)
QtyFor(items, p) ==
  IF items = <<>> THEN 0
  ELSE (IF Head(items).product = p THEN Head(items).quantity ELSE 0)
       + QtyFor(Tail(items), p)

InCart(items) == {items[i].product : i \in 1..Len(items)}

\* the declared invariant of CartItem: every quantity is at least 1
AllPositive(items) == \A i \in 1..Len(items) : items[i].quantity >= 1

ShipKinds == {"ShipHeader", "ShipLine", "ShipTotal"}
ReceiptKinds == {"ReceiptHeader", "ReceiptLine", "Rule", "Subtotal",
                 "Shipping", "Amount"}

\* C1: if checkout fails (ends with an exception), the stock of every product
\* in the cart and the customer's balance equal their values at the call.
\* Stated for the carts whose quantities are all >= 1, the ones the spec
\* declares; the claim covers these and more.
C1_NoPartialCharge ==
  (pc \in {"Rejected", "Failed"} /\ AllPositive(cart[cur])) =>
    /\ \A p \in InCart(cart[cur]) : stock[p] = stock0[p]
    /\ balance = balance0

\* C2: a checkout that has entered the commit phase does not end with an
\* exception ("Failed" is entered only from "Committing", when reduceQuantity
\* or deductBalance throws).  Stated under the declared invariant that every
\* quantity is >= 1.
C2_CommitCannotFail == ~(pc = "Failed" /\ AllPositive(cart[cur]))

\* C3 as claimed: after a successful checkout, for each cart item (p, q) the
\* stock of p is its stock at the call minus q, and the balance is the
\* balance at the call minus (subtotal + shipping).  Stated for the carts
\* whose quantities are all >= 1.
C3_PerItemConservation ==
  (pc = "Done" /\ AllPositive(cart[cur])) =>
    /\ \A i \in 1..Len(cart[cur]) :
         stock[cart[cur][i].product] =
           stock0[cart[cur][i].product] - cart[cur][i].quantity
    /\ balance = balance0 - (subtotal + shippingFee)

\* C3 as amended: after a successful checkout, the stock of every product p is
\* its stock at the call minus the sum of the quantities of all cart entries
\* for p (in int arithmetic), and the balance is the balance at the call minus
\* (subtotal + shipping).
C3_PerProductConservation ==
  pc = "Done" =>
    /\ \A p \in Products :
         stock[p] = WrapInt(stock0[p] - QtyFor(cart[cur], p))
    /\ balance = balance0 - (subtotal + shippingFee)
    /\ subtotal = calculateSubtotal(cart[cur])
    /\ shippingFee = calculateShippingFee(cart[cur])

\* a successful checkout of a cart with two entries for the same product
C3_Witness ==
  /\ pc = "Done"
  /\ Len(cart[cur]) = 2
  /\ cart[cur][1].product = cart[cur][2].product
  /\ cart[cur][1].quantity >= 1 /\ cart[cur][2].quantity >= 1
  /\ balance < balance0

\* the weight a perishable product would expose to shipping: the code gives
\* ExpirableProduct none, the spec requires a positive one
PerishableWeights == 1..3
unitWeightKg(p, w) ==
  IF Kind(p) = "ShippableProduct" THEN getWeight(p) ELSE w

RECURSIVE ClaimedShipping(_, _)
ClaimedShipping(items, w) ==
  IF items = <<>> THEN 0
  ELSE (IF isShippable(Head(items).product)
        THEN unitWeightKg(Head(items).product, w) * Head(items).quantity
             * ShippingRate
        ELSE 0)
       + ClaimedShipping(Tail(items), w)

\* the states in which checkout has computed total
TotalComputed ==
  \/ pc \in {"Priced", "Committing", "Shipping", "Reporting", "Done"}
  \/ pc = "Rejected" /\ err.kind = "InsufficientBalance"

\* C4: the total checkout compares and debits is the sum of unitPrice x
\* quantity over all items plus the sum of unitWeightKg x quantity x 10 over
\* all items whose product isShippable(), perishable ones included, whatever
\* positive weight the perishable products have.  Stated for the carts whose
\* quantities are all >= 1.
C4_PricingLaw ==
  (TotalComputed /\ AllPositive(cart[cur])) =>
    \E w \in PerishableWeights :
      total = calculateSubtotal(cart[cur]) + ClaimedShipping(cart[cur], w)

RECURSIVE ShippableOnes(_)
ShippableOnes(items) ==
  IF items = <<>> THEN <<>>
  ELSE (IF isShippable(Head(items).product) THEN <<Head(items)>> ELSE <<>>)
       \o ShippableOnes(Tail(items))

\* C5: the manifest checkout ships is the subsequence of the cart items whose
\* product answers isShippable() = TRUE.  Stated for the carts whose
\* quantities are all >= 1.
C5_ManifestIsShippable ==
  (pc \in {"Reporting", "Done"} /\ AllPositive(cart[cur])) =>
    getShippableItems(cart[cur]) = ShippableOnes(cart[cur])

HasShipLine == \E i \in 1..Len(out) : out[i].kind \in ShipKinds

\* C6: in a successful checkout of a cart none of whose products is
\* shippable, no shipment notice is emitted, the shipping fee is 0 and
\* total = subtotal.
C6_DigitalBypassesShipping ==
  (/\ pc \in {"Reporting", "Done"}
   /\ \A p \in InCart(cart[cur]) : ~isShippable(p)) =>
    /\ ~HasShipLine
    /\ shippingFee = 0
    /\ total = subtotal

\* a digital-only order went through and its receipt is out
C6_Witness ==
  /\ pc = "Done"
  /\ InCart(cart[cur]) = {"Card"}
  /\ out # <<>>
  /\ total > 0

\* the commit phase of the running checkout is complete
CommitDone ==
  /\ pc \in {"Shipping", "Reporting", "Done"}
  /\ \A p \in Products : stock[p] = WrapInt(stock0[p] - QtyFor(cart[cur], p))
  /\ balance = balance0 - total

\* C7: every line of the shipment notice is emitted before the first line of
\* the receipt, and lines are emitted only after the commit phase (all stock
\* decrements and the debit) is complete.
C7_ShipmentBeforeReceipt ==
  /\ \A i, j \in 1..Len(out) :
       (out[i].kind \in ReceiptKinds /\ out[j].kind \in ShipKinds) => j < i
  /\ out # <<>> => CommitDone

\* a run of a mixed order that emitted both a shipment notice and a receipt
C7_Witness ==
  /\ pc = "Done"
  /\ AllPositive(cart[cur])
  /\ InCart(cart[cur]) = {"Cheese", "Card"}
  /\ HasShipLine
  /\ \E i \in 1..Len(out) : out[i].kind = "ReceiptLine"
  /\ stock # stock0 /\ balance # balance0

\* C8: add(product, quantity) fails with InsufficientStock exactly when
\* quantity > product.stock; a failed add leaves the cart as it was, a
\* successful one appends exactly the item (product, quantity).
C8_AddChecksStock ==
  addResult # "None" =>
    LET c == addCall.cart
        item == [product |-> addCall.product, quantity |-> addCall.quantity]
    IN /\ (addResult = "InsufficientStock") <=>
            (item.quantity > stock[item.product])
       /\ addResult = "InsufficientStock" => cart = addCall.before
       /\ addResult = "Ok" =>
            cart = [addCall.before EXCEPT ![c] = Append(@, item)]

\* an add of one more than the stock, on a cart that holds an item, failed
C8_Witness ==
  /\ addResult = "InsufficientStock"
  /\ addCall.quantity = stock[addCall.product] + 1
  /\ addCall.before[addCall.cart] # <<>>
  /\ AllPositive(addCall.before[addCall.cart])
  /\ cart = addCall.before

\* C9: every item in a cart has quantity >= 1, so a checkout never increases
\* a product's stock or the customer's balance.
C9_QuantityAtLeastOne ==
  /\ \A c \in CartIds : \A i \in 1..Len(cart[c]) : cart[c][i].quantity >= 1
  /\ pc = "Done" =>
       /\ \A p \in Products : stock[p] <= stock0[p]
       /\ balance <= balance0

\* C10: starting from non-negative stock, every product's stock stays >= 0.
C10_StockNonNegative == \A p \in Products : stock[p] >= 0

\* C11: the balance is never negative; a checkout that debited left the
\* balance at its value at the call minus total, with total <= that value,
\* and a checkout that failed left the balance as it was.
C11_NoOverdraft ==
  /\ balance >= 0
  /\ pc \in {"Shipping", "Reporting", "Done"} =>
       (total <= balance0 /\ balance = balance0 - total)
  /\ pc \in {"Rejected", "Failed"} => balance = balance0

\* a second checkout was refused for lack of balance after the first one
\* had debited the customer
C11_Witness ==
  /\ pc = "Rejected" /\ err.kind = "InsufficientBalance"
  /\ nCheckouts = 2
  /\ AllPositive(cart[cur])
  /\ 0 <= balance /\ balance < total
  /\ balance < 2

\* the (product, quantity) pairs of the lines of one kind, in output order
RECURSIVE ItemsOf(_, _)
ItemsOf(lines, k) ==
  IF lines = <<>> THEN <<>>
  ELSE (IF Head(lines).kind = k
        THEN <<[product |-> Head(lines).name, quantity |-> Head(lines).qty]>>
        ELSE <<>>)
       \o ItemsOf(Tail(lines), k)

RECURSIVE OfShippableClass(_)
OfShippableClass(items) ==
  IF items = <<>> THEN <<>>
  ELSE (IF Kind(Head(items).product) = "ShippableProduct"
        THEN <<Head(items)>> ELSE <<>>)
       \o OfShippableClass(Tail(items))

ItemFails(item, t) ==
  isExpired(item.product, t) \/ item.quantity > stock[item.product]

ItemError(item, t) ==
  IF isExpired(item.product, t) THEN Error("Expired", item.product)
  ELSE Error("OutOfStock", item.product)

RECURSIVE FirstItemError(_, _)
FirstItemError(items, t) ==
  IF items = <<>> THEN NoError
  ELSE IF ItemFails(Head(items), t) THEN ItemError(Head(items), t)
  ELSE FirstItemError(Tail(items), t)

Expected(items, t) ==
  IF items = <<>> THEN Error("EmptyCart", "")
  ELSE IF FirstItemError(items, t) # NoError THEN FirstItemError(items, t)
  ELSE IF balance < calculateSubtotal(items) + calculateShippingFee(items)
  THEN Error("InsufficientBalance", "")
  ELSE NoError

\* a rejected checkout reports the first failing check.  The clock may
\* advance between two iterations of the validation loop, so the exact
\* report is fixed by the final state when no product of the cart is expired
\* at the end (then none was expired when it was validated).
C13_Rejected ==
  pc = "Rejected" =>
    LET items == cart[cur] IN
    /\ (\A i \in 1..Len(items) : ~isExpired(items[i].product, now))
         => err = Expected(items, now)
    /\ err.kind = "EmptyCart" <=> items = <<>>
    /\ err.kind \in {"Expired", "OutOfStock"} =>
         \E i \in 1..Len(items) :
           /\ items[i].product = err.name
           /\ ItemFails(items[i], now)
           /\ err.kind = "Expired" => isExpired(items[i].product, now)
           /\ \A j \in 1..(i - 1) :
                items[j].quantity <= stock[items[j].product]
    /\ err.kind = "InsufficientBalance" =>
         /\ \A j \in 1..Len(items) :
              items[j].quantity <= stock[items[j].product]
         /\ balance < total

\* one iteration of the validation loop judges item idx at the current time:
\* Expired before OutOfStock, otherwise on to the next item; the loop starts
\* at the first item and the balance check comes after the last one.
C13_Step ==
  /\ (pc = "Validating" /\ idx <= Len(cart[cur]) /\ now' = now) =>
       LET item == cart[cur][idx] IN
         IF ItemFails(item, now)
         THEN pc' = "Rejected" /\ err' = ItemError(item, now)
         ELSE pc' = "Validating" /\ idx' = idx + 1
  /\ (pc # "Validating" /\ pc' = "Validating") => idx' = 1
  /\ (pc # "Priced" /\ pc' = "Priced") =>
       (pc = "Validating" /\ idx = Len(cart[cur]) + 1)
  /\ (pc # "Rejected" /\ pc' = "Rejected"
      /\ err'.kind = "InsufficientBalance") => pc = "Priced"

\* C13: checkout reports the first failing check in protocol order: EmptyCart
\* for an empty cart, else the error of the first item in cart order that is
\* expired or exceeds the stock, Expired before OutOfStock for one item, and
\* InsufficientBalance only when every item passed validation.
C13_FirstFailingCheck == []C13_Rejected /\ [][C13_Step]_vars

\* Expired is reported for an item that is out of stock as well
C13_Witness ==
  /\ pc = "Rejected"
  /\ err = Error("Expired", "Milk")
  /\ Len(cart[cur]) = 1
  /\ cart[cur][1].quantity > stock["Milk"]
  /\ cart[cur][1].quantity >= 1

\* the checkout of the second cart has ended, and its item i asks for more of
\* a product, held by the first cart too, than the successful checkout of
\* the first cart left
ShortAfterFirst(i) ==
  /\ cur = 2 /\ nCheckouts = 2
  /\ pc \in {"Rejected", "Failed", "Done", "Aborted"}
  /\ \A p \in Products : stock0[p] = InitStock(p) - QtyFor(cart[1], p)
  /\ cart[2][i].product \in InCart(cart[1])
  /\ stock0[cart[2][i].product] < InitStock(cart[2][i].product)
  /\ cart[2][i].quantity > stock0[cart[2][i].product]

\* C14 as claimed: the second cart's checkout then fails with
\* OutOfStock(name) of that product and changes no stock and no balance.
C14_OutOfStockOfThatProduct ==
  \A i \in 1..Len(cart[2]) :
    ShortAfterFirst(i) =>
      /\ pc = "Rejected"
      /\ err = Error("OutOfStock", cart[2][i].product)
      /\ stock = stock0 /\ balance = balance0

\* item i is the first item of the second cart that fails validation, and
\* its product is not expired
FirstFailingFresh(i) ==
  /\ ~isExpired(cart[2][i].product, now)
  /\ \A j \in 1..(i - 1) : ~ItemFails(cart[2][j], now)

\* C14 as amended: the second cart's checkout then fails in validation and
\* changes no stock and no balance; the error is OutOfStock(name) of that
\* product when the item is the first one in cart order that fails
\* validation and its product is not expired.
C14_SecondCheckoutRejected ==
  \A i \in 1..Len(cart[2]) :
    ShortAfterFirst(i) =>
      /\ pc = "Rejected"
      /\ err.kind \in {"Expired", "OutOfStock"}
      /\ stock = stock0 /\ balance = balance0
      /\ FirstFailingFresh(i) => err = Error("OutOfStock", cart[2][i].product)

\* both carts hold Cheese; the first cart's checkout took one of the two and
\* the second cart, which asks for two, was refused
C14_Witness ==
  /\ cart[1] = <<[product |-> "Cheese", quantity |-> 1]>>
  /\ cart[2] = <<[product |-> "Cheese", quantity |-> 2]>>
  /\ ShortAfterFirst(1)
  /\ stock["Cheese"] = 1
  /\ err = Error("OutOfStock", "Cheese")

\* the running checkout passed the empty check and the validation loop, and
\* has ended
EndedAfterValidation ==
  \/ pc \in {"Done", "Failed"}
  \/ pc = "Rejected" /\ err.kind = "InsufficientBalance"

\* C15: a checkout whose items all passed validation is rejected with
\* InsufficientBalance exactly when the balance is below total; with a
\* balance equal to total it is accepted and ends with balance 0.  Stated for
\* the carts whose quantities are all >= 1.
C15_AffordabilityBoundary ==
  (EndedAfterValidation /\ AllPositive(cart[cur])) =>
    /\ (pc = "Rejected") <=> (balance0 < total)
    /\ balance0 = total => (pc = "Done" /\ balance = 0)

HasReceiptLine == \E i \in 1..Len(out) : out[i].kind \in ReceiptKinds

\* C16: a checkout that ends in an error has written nothing to the output,
\* and a receipt is written only in a run that debited the customer exactly
\* the amount its Amount line shows.
C16_NoOutputOnFailure ==
  /\ pc \in {"Rejected", "Failed", "Aborted"} => out = <<>>
  /\ HasReceiptLine =>
       /\ pc = "Done"
       /\ \E i \in 1..Len(out) :
            out[i].kind = "Amount" /\ balance0 - balance = out[i].amount

\* a checkout failed in its commit loop, after a stock decrement, and wrote
\* nothing
C16_Witness ==
  /\ pc = "Failed"
  /\ AllPositive(cart[cur])
  /\ stock # stock0
  /\ out = <<>>

\* a step of addToCart (the clock does not move in it)
AddStep == pc' = "Idle" /\ addResult' # "None" /\ now' = now

\* the cart changes only in a successful add, never in a step of checkout,
\* and an add leaves every stock as it is
C17_Frame ==
  /\ cart' # cart => (AddStep /\ addResult' = "Ok")
  /\ AddStep => (stock' = stock /\ balance' = balance)
  /\ pc' # "Idle" => cart' = cart

\* a successful checkout, the first or a later one of the same cart, has
\* charged and taken from stock the whole cart as it is
C17_WholeOrder ==
  pc = "Done" =>
    /\ \A p \in Products :
         stock[p] = WrapInt(stock0[p] - QtyFor(cart[cur], p))
    /\ balance = balance0
                 - (calculateSubtotal(cart[cur])
                    + calculateShippingFee(cart[cur]))
    /\ ItemsOf(out, "ReceiptLine") = cart[cur]

\* C17: checkout never changes the cart and add never changes a stock, so a
\* second checkout of the same cart repeats the whole order against the
\* stock and balance of that moment.
C17_CartUnchangedByCheckout == [][C17_Frame]_vars /\ []C17_WholeOrder

\* the same one-item cart was checked out twice, and both times it was
\* charged and taken from stock
C17_Witness ==
  /\ pc = "Done" /\ nCheckouts = 2
  /\ cart[cur] = <<[product |-> "Cheese", quantity |-> 1]>>
  /\ stock["Cheese"] = InitStock("Cheese") - 2
  /\ balance0 = 27 /\ balance = 14

====
